---- MODULE Spec2Model ----
(***************************************************************************)
(* NebulaVault: a confidential staking vault over two ERC7984 tokens.      *)
(* The contract is the Solidity source embedded in src/deploy/deploy.ts    *)
(* (lines 48-188).  An encrypted euint64 is modelled by its plaintext and  *)
(* by whether its handle is initialised (the zero handle is "never         *)
(* written").  The 64-bit range is scaled down to 0..MaxU.  A ciphertext   *)
(* in flight also carries the identity of its handle; storage keeps of a   *)
(* handle its plaintext and whether it is initialised, and the trace of    *)
(* the transaction that stored it tells which handle it was.               *)
(***************************************************************************)
EXTENDS Integers, FiniteSets, Sequences, TLC

\* ---------------------------------------------------------------- bounds
\* Largest value of the scaled euint64 range (stands for 2^64 - 1).
MaxU == 2
\* Units minted by one faucet call (stands for 1000*1000000).
FaucetUnits == 1

Accounts == {"alice", "bob"}
Asset == {"METH", "MUSDT"}

Modulus == MaxU + 1
Amounts == 0..MaxU

\* Outcome of a call into the token that reverts.
Revert == -1
\* Marker of an absent amount in a receipt.
None == -1

\* address(0), and the addresses a token may be deployed at.
ZeroAddress == "address(0)"
Addresses == {ZeroAddress, "mETH", "mUSDT"}

\* Principals of the access control list: the vault (address(this)), the
\* tokens by their addresses, and the accounts.
Vault == "vault"

\* ------------------------------------------------- encrypted values (FHE)
\* euint64 as storage holds it: init = FALSE is the reserved zero handle.
Enc(v) == [init |-> TRUE, val |-> v]
ZeroHandle == [init |-> FALSE, val |-> 0]

\* euint64 in flight: the ciphertext with the identity of its handle.
Handle(id, v) == [init |-> TRUE, val |-> v, id |-> id]
\* What storage keeps of a handle.
Stored(h) == [init |-> h.init, val |-> h.val]
\* The handle read from a storage slot: bytes32(0) when never written.
Load(x, slot) == [init |-> x.init, val |-> x.val,
                  id |-> IF x.init THEN slot ELSE "0x0"]

\* FHE.isInitialized
isInitialized(x) == x.init
\* Plaintext seen by a client: the zero handle reads as 0
\* (decryptBalance in the tests, task:decrypt-stake).
decrypt(x) == IF x.init THEN x.val ELSE 0
\* FHE.asEuint64: a trivially encrypted constant
asEuint64(v) == Handle("asEuint64", v)
\* FHE.add on euint64 wraps; the result is a new handle
add(x, y) ==
    Handle("add(" \o x.id \o "," \o y.id \o ")",
           (decrypt(x) + decrypt(y)) % Modulus)
\* FHE.sub on euint64 wraps; the result is a new handle
sub(x, y) ==
    Handle("sub(" \o x.id \o "," \o y.id \o ")",
           (decrypt(x) - decrypt(y) + Modulus) % Modulus)
\* FHE.ge / FHE.eq return an ebool, modelled by its plaintext
ge(x, y) == decrypt(x) >= decrypt(y)
\* FHE.select: a new handle holding one of the two plaintexts
select(b, x, y) ==
    Handle("select(" \o x.id \o "," \o y.id \o ")",
           IF b THEN decrypt(x) ELSE decrypt(y))

\* ------------------------------------------------------------ FHESafeMath
\* The library the vault imports (deploy.ts:54).  Both functions treat the
\* zero handle as an empty balance, and on failure return the old value.
\* (success, updated) of FHESafeMath.tryIncrease
tryIncrease(oldValue, delta) ==
    IF ~isInitialized(oldValue)
    THEN [success |-> TRUE, updated |-> delta]
    ELSE LET newValue == add(oldValue, delta)
             success == ge(newValue, oldValue)
         IN [success |-> success, updated |-> select(success, newValue, oldValue)]

\* (success, updated) of FHESafeMath.tryDecrease
tryDecrease(oldValue, delta) ==
    IF ~isInitialized(oldValue)
    THEN IF ~isInitialized(delta)
         THEN [success |-> TRUE, updated |-> oldValue]
         ELSE [success |-> decrypt(delta) = 0, updated |-> asEuint64(0)]
    ELSE LET success == ge(oldValue, delta)
         IN [success |-> success,
             updated |-> select(success, sub(oldValue, delta), oldValue)]

\* A variant of fromExternal that accepts a ciphertext whatever its proof.
fromExternal_unchecked(req, proofOk) ==
    [ok |-> TRUE, value |-> Handle("input", req)]

\* FHE.fromExternal(encryptedAmount, inputProof): the validated ciphertext,
\* or a revert when the proof does not match.
fromExternal(req, proofOk) == [ok |-> proofOk, value |-> Handle("input", req)]

\* ------------------------------------------------------------------ state
VARIABLES
    tokens,      \* methToken / musdtToken: asset -> address
    stakes,      \* _methStakes / _musdtStakes: asset -> account -> euint64
    totals,      \* _totalMethStaked / _totalMusdtStaked: asset -> euint64
    tokenKind,   \* the tokens the vault was constructed with
    wallet,      \* reference token: asset -> account -> balance
    custody,     \* reference token: asset -> balance of the vault
    receipt,     \* outcome of the transaction being awaited, if any
    operators,   \* the tokens' approvals of the vault: asset -> account -> bool
    vaultApp     \* the dashboard: the state of the VaultApp component

vars ==
    <<tokens, stakes, totals, tokenKind, wallet, custody, receipt, operators,
      vaultApp>>

\* The current state as one record; the handlers below map such a record to
\* the record after the call.
cur ==
    [tokens |-> tokens, stakes |-> stakes, totals |-> totals,
     tokenKind |-> tokenKind, wallet |-> wallet, custody |-> custody,
     receipt |-> receipt, operators |-> operators, vaultApp |-> vaultApp]

\* No transaction is awaited.
NoReceipt ==
    [op |-> "none", user |-> "none", asset |-> "none", status |-> "none",
     req |-> None, handed |-> None, moved |-> None, trace |-> <<>>]

\* status: "ok" or the error the call reverted with; req: the plaintext the
\* caller encrypted, None if it did not pass validation; handed: the
\* plaintext of the amount given to the token's transfer primitive, None if
\* it was not invoked; moved: the plaintext of the amount in the Staked /
\* Unstaked event, None if no event was emitted; trace: what the
\* transaction left behind, in order (grants, token calls, storage writes,
\* events), empty until it completes.
Receipt(op, user, asset, status, req, handed, moved) ==
    [op |-> op, user |-> user, asset |-> asset, status |-> status,
     req |-> req, handed |-> handed, moved |-> moved, trace |-> <<>>]

\* A call that reverts: storage is as before the call, and nothing the
\* call did is kept.
revert(s, op, user, asset, error, req, handed) ==
    [s EXCEPT !.receipt = Receipt(op, user, asset, error, req, handed, None)]

\* A call that completes: the receipt of the transaction with its trace.
complete(s, op, user, asset, req, handed, moved) ==
    [s EXCEPT !.receipt =
        [Receipt(op, user, asset, "ok", req, handed, moved)
            EXCEPT !.trace = s.receipt.trace]]

\* One entry of the trace of a transaction.
\*   kind "allow":  who is granted the handle id
\*   kind "call":   the token function `what` is called with the handle id
\*   kind "sstore": the handle id is written to the slot of mapping `what`
\*                  ("stakes" of an account, "totals") of an asset
\*   kind "emit":   the event `what` is emitted with (who, asset, id)
Event(kind, what, asset, who, id) ==
    [kind |-> kind, what |-> what, asset |-> asset, who |-> who, id |-> id]

\* The state with one more entry in the trace of the running transaction.
log(s, e) == [s EXCEPT !.receipt.trace = Append(@, e)]

\* FHE.allow(value, who)
allow(s, value, who) == log(s, Event("allow", "", "", who, value.id))
\* FHE.allowThis(value)
allowThis(s, value) == allow(s, value, Vault)

\* ---------------------------------------------------- private functions
\* _getToken
_getToken(s, asset) == s.tokens[asset]

\* _getStake
_getStake(s, asset, account) == Load(s.stakes[asset][account], "stake")

\* A variant of _updateStakeStorage that omits the grant to the account.
_updateStakeStorage_noOwnerGrant(s, asset, account, value) ==
    LET s1 == allowThis(s, value)
    IN log([s1 EXCEPT !.stakes[asset][account] = Stored(value)],
           Event("sstore", "stakes", asset, account, value.id))

\* _updateStakeStorage
_updateStakeStorage(s, asset, account, value) ==
    LET s1 == allowThis(s, value)
        s2 == allow(s1, value, account)
    IN log([s2 EXCEPT !.stakes[asset][account] = Stored(value)],
           Event("sstore", "stakes", asset, account, value.id))

\* A variant of _increaseStake that adds without the overflow check.
_increaseStake_unchecked(s, asset, account, amount) ==
    _updateStakeStorage(s, asset, account,
                        add(_getStake(s, asset, account), amount))

\* _increaseStake
_increaseStake(s, asset, account, amount) ==
    LET current == _getStake(s, asset, account)
        updated == tryIncrease(current, amount).updated
    IN _updateStakeStorage(s, asset, account, updated)

\* A variant of _decreaseStake that subtracts without comparing first.
_decreaseStake_unchecked(s, asset, account, amount) ==
    [success |-> TRUE, updated |-> sub(_getStake(s, asset, account), amount)]

\* _decreaseStake: (success, updated); nothing is stored
_decreaseStake(s, asset, account, amount) ==
    LET current == _getStake(s, asset, account)
    IN tryDecrease(current, amount)

\* A variant of _increaseTotal that adds without the overflow check.
_increaseTotal_unchecked(s, asset, amount) ==
    LET updated == add(Load(s.totals[asset], "total"), amount)
        s1 == allowThis(s, updated)
    IN log([s1 EXCEPT !.totals[asset] = Stored(updated)],
           Event("sstore", "totals", asset, "", updated.id))

\* _increaseTotal
_increaseTotal(s, asset, amount) ==
    LET updated == tryIncrease(Load(s.totals[asset], "total"), amount).updated
        s1 == allowThis(s, updated)
    IN log([s1 EXCEPT !.totals[asset] = Stored(updated)],
           Event("sstore", "totals", asset, "", updated.id))

\* A variant of _decreaseTotal that debits the totals of both classes.
_decreaseTotal_everyClass(s, asset, amount) ==
    LET updated == tryDecrease(Load(s.totals[asset], "total"), amount).updated
        s1 == allowThis(s, updated)
    IN log([s1 EXCEPT !.totals = [c \in Asset |-> Stored(updated)]],
           Event("sstore", "totals", asset, "", updated.id))

\* _decreaseTotal
_decreaseTotal(s, asset, amount) ==
    LET updated == tryDecrease(Load(s.totals[asset], "total"), amount).updated
        s1 == allowThis(s, updated)
    IN log([s1 EXCEPT !.totals[asset] = Stored(updated)],
           Event("sstore", "totals", asset, "", updated.id))

\* getEncryptedStake
getEncryptedStake(s, account, asset) == _getStake(s, asset, account)

\* getTotalStaked
getTotalStaked(s, asset) == Load(s.totals[asset], "total")

\* ------------------------------------------------------------- the tokens
\* The smaller of two amounts.
Min(x, y) == IF x <= y THEN x ELSE y

\* Tokens whose books the model follows: the reference ERC7984 ("erc7984"),
\* an ERC7984 that applies limits or fees of its own ("capped"), and an
\* ERC7984 that moves amounts as the reference does and notifies the
\* recipient of a transfer, who may call the vault again before the transfer
\* returns ("hooked").  A token of kind "interface" is known only by the
\* IERC7984 interface.
Booked(s) == s.tokenKind \in {"erc7984", "capped", "hooked"}

\* What token.confidentialTransferFrom(from, vault, amount) may return.  The
\* reference ERC7984 moves the amount or nothing (and reverts on a balance
\* that was never written); a capped token moves any part of the amount the
\* sender holds; an interface token returns any amount, or reverts.
TransferFromResults(s, asset, from, amount) ==
    CASE s.tokenKind \in {"erc7984", "hooked"} ->
            {IF s.wallet[asset][from] >= amount THEN amount ELSE 0}
            \cup (IF s.wallet[asset][from] = 0 THEN {Revert} ELSE {})
      [] s.tokenKind = "capped" -> 0..Min(amount, s.wallet[asset][from])
      [] OTHER -> Amounts \cup {Revert}

\* What token.confidentialTransfer(to, amount) may return.
TransferResults(s, asset, amount) ==
    CASE s.tokenKind \in {"erc7984", "hooked"} ->
            {IF s.custody[asset] >= amount THEN amount ELSE 0}
            \cup (IF s.custody[asset] = 0 THEN {Revert} ELSE {})
      [] s.tokenKind = "capped" -> 0..Min(amount, s.custody[asset])
      [] OTHER -> Amounts \cup {Revert}

\* The token's books after confidentialTransferFrom moved `moved` from an
\* account to the vault (the books of an interface token are not seen).
confidentialTransferFrom(s, asset, from, moved) ==
    IF Booked(s)
    THEN [s EXCEPT !.wallet[asset][from] = @ - moved,
                   !.custody[asset] = @ + moved]
    ELSE s

\* The token's books after confidentialTransfer moved `moved` from the vault
\* to an account.
confidentialTransfer(s, asset, to, moved) ==
    IF Booked(s)
    THEN [s EXCEPT !.wallet[asset][to] = @ + moved,
                   !.custody[asset] = @ - moved]
    ELSE s

\* ------------------------------------------------------------- operations
\* The call of a function of the token, with the handle it is given (""
\* when it is given none).
call(s, what, asset, who, value) ==
    log(s, Event("call", what, asset, who, value.id))

\* A variant of emit that records the event with the handle of the amount
\* the vault gave to the token.
emit_handleGiven(s, what, asset, user, amount) ==
    log(s, Event("emit", what, asset, user, "input"))

\* emit Staked / Unstaked (user, asset, amount)
emit(s, what, asset, user, amount) ==
    log(s, Event("emit", what, asset, user, amount.id))

\* A variant of stakeApproved that credits the requested amount instead of
\* the amount the token returned.
stakeApproved_creditsRequested(s, user, asset, req, proofOk, ret) ==
    LET input == fromExternal(req, proofOk)
        amount == input.value
    IN IF ~input.ok
       THEN revert(s, "stake", user, asset, "InvalidProof", None, None)
       ELSE IF ret = Revert
       THEN revert(s, "stake", user, asset, "TokenReverted", req, decrypt(amount))
       ELSE LET transferred == Handle("transferred", ret)
                s0 == call(allow(s, amount, _getToken(s, asset)), "confidentialTransferFrom",
                           asset, user, amount)
                s1 == confidentialTransferFrom(s0, asset, user, ret)
                s2 == _increaseStake(s1, asset, user, amount)
                s3 == _increaseTotal(s2, asset, amount)
                s4 == emit(s3, "Staked", asset, user, transferred)
            IN complete(s4, "stake", user, asset, req, decrypt(amount),
                        decrypt(transferred))

\* A variant of stakeApproved that writes the position before the transfer and
\* keeps the write when the token reverts.
stakeApproved_writesBeforeTransfer(s, user, asset, req, proofOk, ret) ==
    LET input == fromExternal(req, proofOk)
        s1 == _increaseStake(s, asset, user, input.value)
    IN IF ~input.ok
       THEN revert(s, "stake", user, asset, "InvalidProof", None, None)
       ELSE IF ret = Revert
       THEN revert(s1, "stake", user, asset, "TokenReverted", req, req)
       ELSE complete(emit(_increaseTotal(s1, asset, Handle("transferred", ret)),
                          "Staked", asset, user, Handle("transferred", ret)),
                     "stake", user, asset, req, req, ret)

\* stake, from FHE.fromExternal on (the operator check has passed).
stakeApproved(s, user, asset, req, proofOk, ret) ==
    LET input == fromExternal(req, proofOk)
        amount == input.value
    IN IF ~input.ok
       THEN revert(s, "stake", user, asset, "InvalidProof", None, None)
       ELSE IF ret = Revert
       THEN revert(s, "stake", user, asset, "TokenReverted", req, decrypt(amount))
       ELSE LET transferred == Handle("transferred", ret)
                s0 == call(allow(s, amount, _getToken(s, asset)), "confidentialTransferFrom",
                           asset, user, amount)
                s1 == confidentialTransferFrom(s0, asset, user, ret)
                s2 == _increaseStake(s1, asset, user, transferred)
                s3 == _increaseTotal(s2, asset, transferred)
                s4 == emit(s3, "Staked", asset, user, transferred)
            IN complete(s4, "stake", user, asset, req, decrypt(amount),
                        decrypt(transferred))

\* A variant of stake without the operator check.
stake_noOperatorCheck(s, user, asset, approved, req, proofOk, ret) ==
    stakeApproved(call(s, "isOperator", asset, user, [id |-> ""]),
                  user, asset, req, proofOk, ret)

\* NebulaVault.stake(asset, encryptedAmount, inputProof) called by user.
\*   approved: what token.isOperator(user, vault) returns
\*   req:      plaintext of the supplied ciphertext
\*   proofOk:  whether the ciphertext matches its proof
\*   ret:      what token.confidentialTransferFrom returns (or Revert)
stake(s, user, asset, approved, req, proofOk, ret) ==
    IF ~approved
    THEN revert(s, "stake", user, asset, "OperatorMissing", None, None)
    ELSE stakeApproved(call(s, "isOperator", asset, user, [id |-> ""]),
                       user, asset, req, proofOk, ret)

\* A variant of withdrawAmount that hands the request to the token whether or
\* not the stake covers it.
withdrawAmount_noSelect(s, user, asset, requested) == requested

\* FHE.select(canWithdraw, requested, FHE.asEuint64(0)) in unstake
withdrawAmount(s, user, asset, requested) ==
    LET canWithdraw == _decreaseStake(s, asset, user, requested).success
    IN select(canWithdraw, requested, asEuint64(0))

\* A variant of unstakeWrites that debits the total by what the stake lost
\* instead of by what the token sent.
unstakeWrites_totalByRequest(s, user, asset, updatedStake, sent) ==
    LET lost == sub(_getStake(s, asset, user), updatedStake)
        s1 == _updateStakeStorage(s, asset, user, updatedStake)
    IN _decreaseTotal(s1, asset, lost)

\* A variant of unstakeWrites that forgets to persist the updated stake.
unstakeWrites_noStakeWrite(s, user, asset, updatedStake, sent) ==
    _decreaseTotal(s, asset, sent)

\* A variant of unstakeWrites that leaves a position that was never written
\* as it is.
unstakeWrites_skipsEmptyPosition(s, user, asset, updatedStake, sent) ==
    IF isInitialized(_getStake(s, asset, user))
    THEN _decreaseTotal(_updateStakeStorage(s, asset, user, updatedStake),
                        asset, sent)
    ELSE _decreaseTotal(s, asset, sent)

\* The writes of unstake after the token returned `sent`.
unstakeWrites(s, user, asset, updatedStake, sent) ==
    LET s1 == _updateStakeStorage(s, asset, user, updatedStake)
    IN _decreaseTotal(s1, asset, sent)

\* A variant of unstake that reverts when the stake does not cover the
\* request.
unstake_revertsWhenInsufficient(s, user, asset, req, proofOk, ret) ==
    LET input == fromExternal(req, proofOk)
        requested == input.value
        decreased == _decreaseStake(s, asset, user, requested)
    IN IF ~input.ok
       THEN revert(s, "unstake", user, asset, "InvalidProof", None, None)
       ELSE IF ~decreased.success
       THEN revert(s, "unstake", user, asset, "Insufficient", req, None)
       ELSE IF ret = Revert
       THEN revert(s, "unstake", user, asset, "TokenReverted", req, req)
       ELSE LET sent == Handle("sent", ret)
                s0 == call(allow(s, requested, _getToken(s, asset)),
                           "confidentialTransfer", asset, user, requested)
                s1 == confidentialTransfer(s0, asset, user, ret)
                s2 == unstakeWrites(s1, user, asset, decreased.updated, sent)
                s3 == emit(s2, "Unstaked", asset, user, sent)
            IN complete(s3, "unstake", user, asset, req, req, decrypt(sent))

\* NebulaVault.unstake(asset, encryptedAmount, inputProof) called by user.
\*   ret: what token.confidentialTransfer returns (or Revert)
unstake(s, user, asset, req, proofOk, ret) ==
    LET input == fromExternal(req, proofOk)
        requested == input.value
        updatedStake == _decreaseStake(s, asset, user, requested).updated
        amount == withdrawAmount(s, user, asset, requested)
        handed == decrypt(amount)
    IN IF ~input.ok
       THEN revert(s, "unstake", user, asset, "InvalidProof", None, None)
       ELSE IF ret = Revert
       THEN revert(s, "unstake", user, asset, "TokenReverted", req, handed)
       ELSE LET sent == Handle("sent", ret)
                s0 == call(allow(s, amount, _getToken(s, asset)), "confidentialTransfer",
                           asset, user, amount)
                s1 == confidentialTransfer(s0, asset, user, ret)
                s2 == unstakeWrites(s1, user, asset, updatedStake, sent)
                s3 == emit(s2, "Unstaked", asset, user, sent)
            IN complete(s3, "unstake", user, asset, req, handed, decrypt(sent))

\* NebulaVault.unstake when the token's confidentialTransfer, having moved
\* `ret`, lets the recipient call unstake again for the same asset before it
\* returns: the inner call (request req2, the token moves ret2) runs to its
\* end on the storage the outer call has not written yet, and the outer call
\* then writes the updatedStake it computed before the transfer.
unstakeReentered(s, user, asset, req, ret, req2, ret2) ==
    LET requested == fromExternal(req, TRUE).value
        updatedStake == _decreaseStake(s, asset, user, requested).updated
        amount == withdrawAmount(s, user, asset, requested)
        sent == Handle("sent", ret)
        s0 == call(allow(s, amount, _getToken(s, asset)), "confidentialTransfer",
                   asset, user, amount)
        s1 == confidentialTransfer(s0, asset, user, ret)
        inner == unstake(s1, user, asset, req2, TRUE, ret2)
        s2 == unstakeWrites(inner, user, asset, updatedStake, sent)
        s3 == emit(s2, "Unstaked", asset, user, sent)
    IN complete(s3, "unstake", user, asset, req,
                decrypt(amount) + inner.receipt.handed, ret + ret2)

\* A variant of unstakeWithApproval that asks the token for the operator
\* approval, as stake does.
unstakeWithApproval_checksOperator(s, user, asset, approved, req, proofOk, ret) ==
    IF ~approved
    THEN revert(s, "unstake", user, asset, "OperatorMissing", None, None)
    ELSE unstake(call(s, "isOperator", asset, user, [id |-> ""]),
                 user, asset, req, proofOk, ret)

\* NebulaVault.unstake called by a user for whom token.isOperator(user,
\* vault) would return `approved`: unstake does not ask.
unstakeWithApproval(s, user, asset, approved, req, proofOk, ret) ==
    unstake(s, user, asset, req, proofOk, ret)

\* A variant of the constructor that accepts any address.
constructor_unchecked(s, methTokenAddress, musdtTokenAddress) ==
    complete([s EXCEPT !.tokens = [c \in Asset |->
                 IF c = "METH" THEN methTokenAddress ELSE musdtTokenAddress]],
             "constructor", "none", "none", None, None, None)

\* NebulaVault.constructor(methTokenAddress, musdtTokenAddress)
constructor(s, methTokenAddress, musdtTokenAddress) ==
    IF methTokenAddress = ZeroAddress \/ musdtTokenAddress = ZeroAddress
    THEN revert(s, "constructor", "none", "none", "InvalidToken", None, None)
    ELSE complete([s EXCEPT !.tokens = [c \in Asset |->
                      IF c = "METH" THEN methTokenAddress ELSE musdtTokenAddress]],
                  "constructor", "none", "none", None, None, None)

\* The vault has been constructed.
Deployed(s) == \A c \in Asset : s.tokens[c] # ZeroAddress

\* The amount unstake hands to the token for a request of req.
Handed(s, user, asset, req) ==
    decrypt(withdrawAmount(s, user, asset, fromExternal(req, TRUE).value))

\* The step to state record t.
Becomes(t) ==
    /\ tokens' = t.tokens
    /\ stakes' = t.stakes
    /\ totals' = t.totals
    /\ tokenKind' = t.tokenKind
    /\ wallet' = t.wallet
    /\ custody' = t.custody
    /\ receipt' = t.receipt
    /\ operators' = t.operators
    /\ vaultApp' = t.vaultApp

Deploy ==
    /\ receipt = NoReceipt
    /\ ~Deployed(cur)
    /\ \E methTokenAddress \in Addresses, musdtTokenAddress \in Addresses :
          Becomes(constructor(cur, methTokenAddress, musdtTokenAddress))

Stake ==
    /\ receipt = NoReceipt
    /\ Deployed(cur)
    /\ \E user \in Accounts, asset \in Asset, approved \in BOOLEAN,
          req \in Amounts, proofOk \in BOOLEAN :
          \E ret \in TransferFromResults(cur, asset, user, req) :
              Becomes(stake(cur, user, asset, approved, req, proofOk, ret))

Unstake ==
    /\ receipt = NoReceipt
    /\ Deployed(cur)
    /\ \E user \in Accounts, asset \in Asset, req \in Amounts, proofOk \in BOOLEAN :
          \E ret \in TransferResults(cur, asset, Handed(cur, user, asset, req)) :
              Becomes(unstake(cur, user, asset, req, proofOk, ret))

\* The state after the caller has waited for the transaction (tx.wait()) and
\* read its outcome.
settled(s) == [s EXCEPT !.receipt = NoReceipt]

UnstakeReentered ==
    /\ receipt = NoReceipt
    /\ Deployed(cur)
    /\ tokenKind = "hooked"
    /\ \E user \in Accounts, asset \in Asset, req \in Amounts, req2 \in Amounts :
          \E ret \in TransferResults(cur, asset, Handed(cur, user, asset, req))
                      \ {Revert} :
              LET s1 == confidentialTransfer(cur, asset, user, ret)
              IN \E ret2 \in TransferResults(s1, asset,
                                              Handed(s1, user, asset, req2))
                              \ {Revert} :
                     Becomes(unstakeReentered(cur, user, asset, req, ret, req2, ret2))

Wait ==
    /\ receipt # NoReceipt
    /\ Becomes(settled(cur))

\* Tokens in circulation of the reference token.
Supply(s, asset) ==
    s.custody[asset] + s.wallet[asset]["alice"] + s.wallet[asset]["bob"]

\* ERC7984ETH / ERC7984USDT.faucet(to): mints, unless the supply would
\* overflow.
faucet(s, asset, to) ==
    IF Supply(s, asset) + FaucetUnits <= MaxU
    THEN [s EXCEPT !.wallet[asset][to] = @ + FaucetUnits]
    ELSE s

Faucet ==
    /\ receipt = NoReceipt
    /\ Booked(cur)
    /\ \E to \in Accounts, asset \in Asset : Becomes(faucet(cur, asset, to))

\* -------------------------------------------------------------- dashboard
\* The tokens the dashboard shows a card for.
TokenKey == {"meth", "musdt"}

\* TOKEN_CONFIG[token].assetIndex, as the asset class it denotes.
assetIndex(token) == IF token = "meth" THEN "METH" ELSE "MUSDT"

\* What a hook or a piece of React state holds when it holds nothing.
Undefined == "undefined"
Null == "null"
Throw == -2

\* The texts typed into an amount field: nothing, zero, one base unit.
Texts == {"", "0", "0.000001"}

\* Number(value) * Number(DECIMALS), rounded down: the text in base units.
Scaled(value) == IF value = "0.000001" THEN 1 ELSE 0

\* parseToUnits: the amount in base units, or an error for a text that is
\* empty, zero or too small.
parseToUnits(value) == IF Scaled(value) <= 0 THEN Throw ELSE Scaled(value)

\* `${kind}-${token}`: the key withStatus is given.
actionKey(kind, token) == kind \o "-" \o token

\* The keys of the handlers that are followed across their awaits.
ActionKeys == {actionKey("unstake", token) : token \in TokenKey}

\* No handler is in flight for a key.
Idle == [user |-> "none", amount |-> None]

\* The component when the page has loaded: no wallet connected, the
\* encryption service loading, the forms empty, nothing pending, no read of
\* isOperator answered yet, no handler in flight.
initialVaultApp(ready) ==
    [address |-> Undefined, addressesReady |-> ready, zama |-> "loading",
     forms |-> [token \in TokenKey |-> [stake |-> "", unstake |-> ""]],
     pendingAction |-> Null,
     operatorData |-> [token \in TokenKey |-> Undefined],
     inflight |-> [key \in ActionKeys |-> Idle]]

\* useZamaInstance: isLoading, and the instance once it has loaded.
zamaLoading(s) == s.vaultApp.zama = "loading"
instance(s) == IF s.vaultApp.zama = "ready" THEN "instance" ELSE Null

\* tokenState[token]: isOperator is Boolean(data) of the token's
\* isOperator(address, vault) read.
tokenState(s, token) ==
    [isOperator |-> s.vaultApp.operatorData[token] = "true"]

\* The `disabled` attribute of the Approve vault button.
approveDisabled(s, token) ==
    \/ ~s.vaultApp.addressesReady
    \/ tokenState(s, token).isOperator
    \/ s.vaultApp.pendingAction = actionKey("approve", token)

\* The `disabled` attribute of the Stake button.
stakeDisabled(s, token) ==
    \/ s.vaultApp.address = Undefined
    \/ ~s.vaultApp.addressesReady
    \/ ~tokenState(s, token).isOperator
    \/ s.vaultApp.forms[token].stake = ""
    \/ zamaLoading(s)
    \/ s.vaultApp.pendingAction = actionKey("stake", token)

\* The Unstake button without the operator condition.
unstakeDisabled_ignoresOperator(s, token) ==
    \/ s.vaultApp.address = Undefined
    \/ ~s.vaultApp.addressesReady
    \/ s.vaultApp.forms[token].unstake = ""
    \/ zamaLoading(s)
    \/ s.vaultApp.pendingAction = actionKey("unstake", token)

\* The `disabled` attribute of the Unstake button.
unstakeDisabled(s, token) ==
    \/ s.vaultApp.address = Undefined
    \/ ~s.vaultApp.addressesReady
    \/ ~tokenState(s, token).isOperator
    \/ s.vaultApp.forms[token].unstake = ""
    \/ zamaLoading(s)
    \/ s.vaultApp.pendingAction = actionKey("unstake", token)

\* withStatus when the action throws before its first await completes:
\* the key is set and cleared again.
failed(s) == [s EXCEPT !.vaultApp.pendingAction = Null]

\* withStatus when the action is waiting: the key is pending, and the
\* handler holds the account and the amount it was started with.
started(s, key, amount) ==
    [s EXCEPT !.vaultApp.pendingAction = key,
              !.vaultApp.inflight[key] =
                  [user |-> s.vaultApp.address, amount |-> amount]]

\* withStatus when the action has returned or thrown: nothing is pending.
finished(s, key) ==
    [s EXCEPT !.vaultApp.pendingAction = Null,
              !.vaultApp.inflight[key] = Idle]

\* encryptAmount throws when the encryption service or the wallet is
\* missing, or the addresses are not configured.
encryptAmountThrows(s) ==
    \/ instance(s) = Null
    \/ s.vaultApp.address = Undefined
    \/ ~s.vaultApp.addressesReady

\* approveVault: token.setOperator(vault, expiry) by the connected
\* account, tx.wait(), and nothing pending after it.
approveVault(s, token) ==
    IF ~s.vaultApp.addressesReady \/ s.vaultApp.address = Undefined
    THEN failed(s)
    ELSE failed([s EXCEPT
             !.operators[assetIndex(token)][s.vaultApp.address] = TRUE])

\* stakeTokens: parses and encrypts the amount, vault.stake, tx.wait(), the
\* form cleared when the transaction succeeded, and nothing pending after
\* it.
stakeTokens(s, token, ret) ==
    LET amount == parseToUnits(s.vaultApp.forms[token].stake)
        asset == assetIndex(token)
        user == s.vaultApp.address
    IN IF ~s.vaultApp.addressesReady \/ amount = Throw \/ encryptAmountThrows(s)
       THEN failed(s)
       ELSE LET t == stake(s, user, asset, s.operators[asset][user], amount,
                           TRUE, ret)
            IN failed(settled(IF t.receipt.status = "ok"
                              THEN [t EXCEPT !.vaultApp.forms[token].stake = ""]
                              ELSE t))

\* unstakeTokens up to the transaction: parses and encrypts the amount.
unstakeTokens(s, token) ==
    LET amount == parseToUnits(s.vaultApp.forms[token].unstake)
    IN IF ~s.vaultApp.addressesReady \/ amount = Throw \/ encryptAmountThrows(s)
       THEN failed(s)
       ELSE started(s, actionKey("unstake", token), amount)

\* unstakeTokens from the transaction on: vault.unstake, tx.wait(), and the
\* form cleared when the transaction succeeded.
unstakeTokensSent(s, token, ret) ==
    LET key == actionKey("unstake", token)
        job == s.vaultApp.inflight[key]
        t == unstake(s, job.user, assetIndex(token), job.amount, TRUE, ret)
    IN finished(settled(IF t.receipt.status = "ok"
                        THEN [t EXCEPT !.vaultApp.forms[token].unstake = ""]
                        ELSE t), key)

\* handleInputChange
handleInputChange(s, token, field, value) ==
    [s EXCEPT !.vaultApp.forms[token][field] = value]

\* useAccount when the wallet connects, disconnects or changes account: the
\* reads are keyed by the address, so none has been answered for the new one.
useAccount(s, address) ==
    [s EXCEPT !.vaultApp.address = address,
              !.vaultApp.operatorData = [token \in TokenKey |-> Undefined]]

\* useReadContract of isOperator(address, vault) when it is (re)fetched: the
\* token's answer at that time; the read is disabled without an address or
\* without configured addresses.
useReadContract(s, token) ==
    IF s.vaultApp.address = Undefined \/ ~s.vaultApp.addressesReady
    THEN s
    ELSE [s EXCEPT !.vaultApp.operatorData[token] =
              IF s.operators[assetIndex(token)][s.vaultApp.address]
              THEN "true" ELSE "false"]

\* The wallet connects with one of the accounts.
Connect ==
    /\ vaultApp.address = Undefined
    /\ \E address \in Accounts : Becomes(useAccount(cur, address))

\* The encryption service finishes loading, with an instance or an error.
ZamaLoaded ==
    /\ zamaLoading(cur)
    /\ \E outcome \in {"ready", "error"} :
           Becomes([cur EXCEPT !.vaultApp.zama = outcome])

HandleInputChange ==
    \E token \in TokenKey, field \in {"stake", "unstake"}, value \in Texts :
        /\ value # vaultApp.forms[token][field]
        /\ Becomes(handleInputChange(cur, token, field, value))

\* A read of isOperator is answered.
Refetch ==
    \E token \in TokenKey :
        /\ useReadContract(cur, token) # cur
        /\ Becomes(useReadContract(cur, token))

\* The time an approval was given until passes.
Expire ==
    \E asset \in Asset, account \in Accounts :
        /\ operators[asset][account]
        /\ Becomes([cur EXCEPT !.operators[asset][account] = FALSE])

\* A click on Approve vault.
ClickApprove ==
    \E token \in TokenKey :
        /\ ~approveDisabled(cur, token)
        /\ Becomes(approveVault(cur, token))

\* A click on Stake.
ClickStake ==
    \E token \in TokenKey :
        /\ ~stakeDisabled(cur, token)
        /\ \E ret \in TransferFromResults(cur, assetIndex(token),
                        vaultApp.address,
                        Scaled(vaultApp.forms[token].stake)) :
               Becomes(stakeTokens(cur, token, ret))

\* A click on Unstake.  Of the handlers, unstakeTokens is followed across
\* its awaits; at most one is in flight per token.
ClickUnstake ==
    \E token \in TokenKey :
        /\ ~unstakeDisabled(cur, token)
        /\ vaultApp.inflight[actionKey("unstake", token)] = Idle
        /\ Becomes(unstakeTokens(cur, token))

\* An unstake that was started sends its transaction and completes.
UnstakeSent ==
    \E token \in TokenKey :
        LET job == vaultApp.inflight[actionKey("unstake", token)]
        IN /\ job # Idle
           /\ \E ret \in TransferResults(cur, assetIndex(token),
                             Handed(cur, job.user, assetIndex(token),
                                    job.amount)) :
                  Becomes(unstakeTokensSent(cur, token, ret))

InitWith(kind) ==
    /\ tokens = [c \in Asset |-> IF c = "METH" THEN "mETH" ELSE "mUSDT"]
    /\ stakes = [c \in Asset |-> [a \in Accounts |-> ZeroHandle]]
    /\ totals = [c \in Asset |-> ZeroHandle]
    /\ tokenKind = kind
    /\ wallet = [c \in Asset |-> [a \in Accounts |-> 0]]
    /\ custody = [c \in Asset |-> 0]
    /\ receipt = NoReceipt
    /\ operators = [c \in Asset |-> [a \in Accounts |-> FALSE]]
    /\ vaultApp = initialVaultApp(TRUE)

\* The vault over tokens known only by the IERC7984 interface.
Init == InitWith("interface")
Next == Stake \/ Unstake \/ Wait
Spec == Init /\ [][Next]_vars

\* The vault over the two reference ERC7984 tokens the repository deploys.
InitRef == InitWith("erc7984")
NextRef == Stake \/ Unstake \/ Wait \/ Faucet
SpecRef == InitRef /\ [][NextRef]_vars

\* The vault over ERC7984 tokens that apply limits or fees of their own.
InitCapped == InitWith("capped")
SpecCapped == InitCapped /\ [][NextRef]_vars

\* The vault from its deployment on, over reference tokens nobody holds.
InitDeploy ==
    /\ tokens = [c \in Asset |-> ZeroAddress]
    /\ stakes = [c \in Asset |-> [a \in Accounts |-> ZeroHandle]]
    /\ totals = [c \in Asset |-> ZeroHandle]
    /\ tokenKind = "erc7984"
    /\ wallet = [c \in Asset |-> [a \in Accounts |-> 0]]
    /\ custody = [c \in Asset |-> 0]
    /\ receipt = NoReceipt
    /\ operators = [c \in Asset |-> [a \in Accounts |-> FALSE]]
    /\ vaultApp = initialVaultApp(TRUE)
NextDeploy == Deploy \/ Stake \/ Unstake \/ Wait
SpecDeploy == InitDeploy /\ [][NextDeploy]_vars

\* The vault over ERC7984 tokens that notify the recipient of a transfer.
InitHooked == InitWith("hooked")
NextHooked == Stake \/ Unstake \/ UnstakeReentered \/ Wait \/ Faucet
SpecHooked == InitHooked /\ [][NextHooked]_vars

\* Only deposits: the vault over interface tokens when nobody withdraws.
NextStake == Stake \/ Wait
SpecStake == Init /\ [][NextStake]_vars

\* The reference tokens after every account has claimed from each faucet
\* once.
Claimed ==
    LET empty == [wallet |-> [c \in Asset |-> [a \in Accounts |-> 0]],
                  custody |-> [c \in Asset |-> 0]]
        meth == faucet(faucet(empty, "METH", "alice"), "METH", "bob")
    IN faucet(faucet(meth, "MUSDT", "alice"), "MUSDT", "bob")

\* The dashboard over the deployed vault and the reference tokens, with the
\* addresses configured or not.
InitDashboard ==
    /\ tokens = [c \in Asset |-> IF c = "METH" THEN "mETH" ELSE "mUSDT"]
    /\ stakes = [c \in Asset |-> [a \in Accounts |-> ZeroHandle]]
    /\ totals = [c \in Asset |-> ZeroHandle]
    /\ tokenKind = "erc7984"
    /\ wallet = Claimed.wallet
    /\ custody = Claimed.custody
    /\ receipt = NoReceipt
    /\ operators = [c \in Asset |-> [a \in Accounts |-> FALSE]]
    /\ \E ready \in BOOLEAN : vaultApp = initialVaultApp(ready)
NextDashboard ==
    \/ Connect \/ ZamaLoaded \/ HandleInputChange \/ Refetch \/ Expire
    \/ ClickApprove \/ ClickStake \/ ClickUnstake \/ UnstakeSent
SpecDashboard == InitDashboard /\ [][NextDashboard]_vars

\* ------------------------------------------------------------ properties
RECURSIVE SumOver(_, _, _)
SumOver(s, asset, accounts) ==
    IF accounts = {}
    THEN 0
    ELSE LET a == CHOOSE x \in accounts : TRUE
         IN decrypt(s.stakes[asset][a]) + SumOver(s, asset, accounts \ {a})

\* Sum over all accounts of the plaintexts of their stakes of one class.
SumStakes(s, asset) == SumOver(s, asset, Accounts)

\* C1: after any sequence of stake and unstake operations, for each asset
\* class the plaintext of the stored total equals the sum over all accounts
\* of the plaintexts of their stored stakes.
C1_TotalEqualsSumOfStakes ==
    \A asset \in Asset : decrypt(totals[asset]) = SumStakes(cur, asset)

\* C2 as stated: after any sequence of successful stake operations, the
\* plaintext of getTotalStaked(class) equals the sum over accounts of the
\* plaintext of getEncryptedStake(account, class), whatever amounts the
\* token returned.
C2_DepositsTotalEqualsSum ==
    \A asset \in Asset :
        receipt.status \in {"none", "ok"} =>
            decrypt(getTotalStaked(cur, asset)) = SumStakes(cur, asset)

\* C2 amended: after any sequence of stake operations, the total of a class
\* equals the sum of its stakes as long as that sum is within the range of
\* the encrypted integer.
C2_DepositsTotalEqualsSumInRange ==
    \A asset \in Asset :
        SumStakes(cur, asset) <= MaxU =>
            decrypt(getTotalStaked(cur, asset)) = SumStakes(cur, asset)

\* C2 witness: both accounts hold a deposit of one class, the last stake
\* succeeded and the sum is in range.
C2_Witness ==
    \E asset \in Asset :
        /\ receipt.op = "stake" /\ receipt.status = "ok" /\ receipt.asset = asset
        /\ \A a \in Accounts : decrypt(getEncryptedStake(cur, a, asset)) > 0
        /\ SumStakes(cur, asset) <= MaxU

\* C3: round trip on a token that moves exactly what it is asked to move:
\* from any state between transactions, a stake of a (a at most the wallet
\* balance) followed by an unstake of a returns the account's stake and its
\* wallet balance to their values before the stake.
C3_RoundTrip ==
    receipt = NoReceipt =>
        \A user \in Accounts, asset \in Asset, a \in Amounts :
            a <= wallet[asset][user] =>
                \A r1 \in TransferFromResults(cur, asset, user, a) \ {Revert} :
                    LET s1 == settled(stake(cur, user, asset, TRUE, a, TRUE, r1))
                    IN \A r2 \in TransferResults(s1, asset, Handed(s1, user, asset, a))
                                 \ {Revert} :
                           LET s2 == unstake(s1, user, asset, a, TRUE, r2)
                           IN /\ decrypt(getEncryptedStake(s2, user, asset))
                                    = decrypt(getEncryptedStake(cur, user, asset))
                              /\ s2.wallet[asset][user] = wallet[asset][user]

\* C3 witness: an unstake of a positive amount has returned the whole stake
\* of an account to its wallet on the reference token.
C3_Witness ==
    /\ tokenKind = "erc7984"
    /\ receipt.op = "unstake" /\ receipt.status = "ok"
    /\ receipt.req > 0 /\ receipt.handed = receipt.req
    /\ stakes[receipt.asset][receipt.user] = Enc(0)
    /\ wallet[receipt.asset][receipt.user] >= receipt.req

\* C4: an unstake that asks for more than the account's stake leaves the
\* plaintext of the stake unchanged, hands the token an amount of plaintext
\* 0, and leaves the caller's wallet balance unchanged.
C4_RefusedWithdrawal ==
    receipt = NoReceipt =>
        \A user \in Accounts, asset \in Asset, req \in Amounts :
            req > decrypt(getEncryptedStake(cur, user, asset)) =>
                \A ret \in TransferResults(cur, asset, Handed(cur, user, asset, req)) :
                    LET t == unstake(cur, user, asset, req, TRUE, ret)
                    IN /\ decrypt(getEncryptedStake(t, user, asset))
                             = decrypt(getEncryptedStake(cur, user, asset))
                       /\ t.receipt.handed = 0
                       /\ t.wallet[asset][user] = wallet[asset][user]

\* C4 witness: an account with a positive stake has asked for more than it
\* and the call completed.
C4_Witness ==
    /\ receipt.op = "unstake" /\ receipt.status = "ok"
    /\ decrypt(stakes[receipt.asset][receipt.user]) > 0
    /\ receipt.req > decrypt(stakes[receipt.asset][receipt.user])
    /\ receipt.handed = 0

\* What the token may answer to a transfer: an amount, or a revert.
Answers == Amounts \cup {Revert}

\* C5: a stake by a caller for whom the token reports isOperator = false
\* fails with OperatorMissing, leaves every stake position and both totals as
\* they were, and does not invoke the token's transfer.
C5_OperatorMissing ==
    receipt = NoReceipt =>
        \A user \in Accounts, asset \in Asset, req \in Amounts,
           proofOk \in BOOLEAN, ret \in Answers :
            LET t == stake(cur, user, asset, FALSE, req, proofOk, ret)
            IN /\ t.receipt.status = "OperatorMissing"
               /\ t.stakes = stakes
               /\ t.totals = totals
               /\ t.receipt.handed = None

\* C5 witness: a stake was refused for want of operator approval while the
\* vault held deposits.
C5_Witness ==
    /\ receipt.op = "stake" /\ receipt.status = "OperatorMissing"
    /\ \E asset \in Asset : decrypt(totals[asset]) > 0

\* C6: in stake and in unstake, a ciphertext that fails validation against
\* its proof aborts the call with every stake position and both totals
\* unchanged, and the token's transfer is not invoked.
C6_InvalidProof ==
    receipt = NoReceipt =>
        \A user \in Accounts, asset \in Asset, req \in Amounts, ret \in Answers :
            /\ \A approved \in BOOLEAN :
                   LET t == stake(cur, user, asset, approved, req, FALSE, ret)
                   IN /\ t.receipt.status =
                            (IF approved THEN "InvalidProof" ELSE "OperatorMissing")
                      /\ t.stakes = stakes
                      /\ t.totals = totals
                      /\ t.receipt.handed = None
            /\ LET t == unstake(cur, user, asset, req, FALSE, ret)
               IN /\ t.receipt.status = "InvalidProof"
                  /\ t.stakes = stakes
                  /\ t.totals = totals
                  /\ t.receipt.handed = None

\* C6 witness: an unstake was aborted for an invalid proof while the caller
\* held a stake.
C6_Witness ==
    /\ receipt.op = "unstake" /\ receipt.status = "InvalidProof"
    /\ decrypt(stakes[receipt.asset][receipt.user]) > 0

\* C7: an unstake with a valid proof never aborts because of insufficient
\* balance: whatever the stake (never written included) and the request, the
\* token's transfer is invoked, with the request when the stake covers it and
\* with zero otherwise, and the call completes and emits Unstaked whenever
\* the token returns.
C7_NoAbortOnInsufficiency ==
    receipt = NoReceipt =>
        \A user \in Accounts, asset \in Asset, req \in Amounts, ret \in Answers :
            LET t == unstake(cur, user, asset, req, TRUE, ret)
                covered == req <= decrypt(getEncryptedStake(cur, user, asset))
            IN /\ t.receipt.handed = (IF covered THEN req ELSE 0)
               /\ t.receipt.status = (IF ret = Revert THEN "TokenReverted" ELSE "ok")
               /\ ret # Revert => t.receipt.moved = ret

\* C7 witness: an unstake of a positive amount on a position holding nothing
\* completed with zero handed to the token.
C7_Witness ==
    /\ receipt.op = "unstake" /\ receipt.status = "ok"
    /\ receipt.req > 0 /\ receipt.handed = 0
    /\ decrypt(stakes[receipt.asset][receipt.user]) = 0

\* C8 as stated: in a solvent unstake the stake decreases by the requested
\* amount and the total decreases by the amount the token reports as sent.
C8_StakeByRequestTotalBySent ==
    receipt = NoReceipt =>
        \A user \in Accounts, asset \in Asset, req \in Amounts, ret \in Amounts :
            req <= decrypt(getEncryptedStake(cur, user, asset)) =>
                LET t == unstake(cur, user, asset, req, TRUE, ret)
                IN /\ decrypt(getEncryptedStake(t, user, asset))
                         = decrypt(getEncryptedStake(cur, user, asset)) - req
                   /\ decrypt(getTotalStaked(t, asset))
                         = decrypt(getTotalStaked(cur, asset)) - ret

\* C8 amended: in a solvent unstake the stake decreases by the requested
\* amount whatever the token reports as sent; the total decreases by the
\* amount the token reports as sent when that amount is at most the total,
\* and stays as it is when the amount is larger.
C8_StakeByRequestTotalBySentIfCovered ==
    receipt = NoReceipt =>
        \A user \in Accounts, asset \in Asset, req \in Amounts, ret \in Amounts :
            req <= decrypt(getEncryptedStake(cur, user, asset)) =>
                LET t == unstake(cur, user, asset, req, TRUE, ret)
                    total == decrypt(getTotalStaked(cur, asset))
                IN /\ decrypt(getEncryptedStake(t, user, asset))
                         = decrypt(getEncryptedStake(cur, user, asset)) - req
                   /\ decrypt(getTotalStaked(t, asset))
                         = (IF ret <= total THEN total - ret ELSE total)

\* C8 witness: a solvent unstake of a positive amount for which the token
\* reported another amount as sent.
C8_Witness ==
    /\ receipt.op = "unstake" /\ receipt.status = "ok"
    /\ receipt.req > 0 /\ receipt.handed = receipt.req
    /\ receipt.moved # receipt.req

\* The plaintext after crediting r to x through the overflow-checked
\* increase: the sum when it is in range, x otherwise.
Credited(x, r) == IF x + r <= MaxU THEN x + r ELSE x

\* C9 as stated: a successful stake adds the amount the token returned, not
\* the requested amount, to the caller's stake and to the class's total.
C9_CreditsReturnedAmount ==
    receipt = NoReceipt =>
        \A user \in Accounts, asset \in Asset, req \in Amounts, ret \in Amounts :
            req # ret =>
                LET t == stake(cur, user, asset, TRUE, req, TRUE, ret)
                IN /\ decrypt(getEncryptedStake(t, user, asset))
                         = decrypt(getEncryptedStake(cur, user, asset)) + ret
                   /\ decrypt(getTotalStaked(t, asset))
                         = decrypt(getTotalStaked(cur, asset)) + ret

\* C9 amended: a successful stake credits the caller's stake and the class's
\* total with the amount the token returned and never with the requested
\* amount: each of the two grows by the returned amount when the sum is in
\* range and stays as it is otherwise, and the outcome is the same for every
\* requested amount.
C9_CreditsReturnedAmountInRange ==
    receipt = NoReceipt =>
        \A user \in Accounts, asset \in Asset, req \in Amounts, ret \in Amounts :
            req # ret =>
                LET t == stake(cur, user, asset, TRUE, req, TRUE, ret)
                    u == stake(cur, user, asset, TRUE, ret, TRUE, ret)
                IN /\ decrypt(getEncryptedStake(t, user, asset))
                         = Credited(decrypt(getEncryptedStake(cur, user, asset)), ret)
                   /\ decrypt(getTotalStaked(t, asset))
                         = Credited(decrypt(getTotalStaked(cur, asset)), ret)
                   /\ t.stakes = u.stakes
                   /\ t.totals = u.totals

\* C9 witness: a stake completed for which the token moved a positive amount
\* other than the requested one, and the stake holds it.
C9_Witness ==
    /\ receipt.op = "stake" /\ receipt.status = "ok"
    /\ receipt.moved > 0 /\ receipt.moved # receipt.req
    /\ decrypt(stakes[receipt.asset][receipt.user]) >= receipt.moved
    /\ decrypt(totals[receipt.asset]) >= receipt.moved

\* C10 as stated: for every stake value and every moved amount of the range,
\* after a successful stake the stored stake is the previous stake plus the
\* moved amount.
C10_AlwaysFullyCredited ==
    receipt = NoReceipt =>
        \A user \in Accounts, asset \in Asset, req \in Amounts, ret \in Amounts :
            LET t == stake(cur, user, asset, TRUE, req, TRUE, ret)
            IN decrypt(getEncryptedStake(t, user, asset))
                   = decrypt(getEncryptedStake(cur, user, asset)) + ret

\* C10 amended: after a successful stake the stored stake is the previous
\* stake plus the moved amount whenever that sum is within the range of the
\* encrypted integer; when the sum exceeds the range the stored stake keeps
\* its previous value (the moved amount is not credited, the value does not
\* wrap).
C10_FullyCreditedUnlessOverflow ==
    receipt = NoReceipt =>
        \A user \in Accounts, asset \in Asset, req \in Amounts, ret \in Amounts :
            LET t == stake(cur, user, asset, TRUE, req, TRUE, ret)
                before == decrypt(getEncryptedStake(cur, user, asset))
                after == decrypt(getEncryptedStake(t, user, asset))
            IN /\ before + ret <= MaxU => after = before + ret
               /\ before + ret > MaxU => after = before
               /\ after >= before

\* C10 witness: a stake completed whose moved amount, the largest of the
\* range, was not credited to the position.
C10_Witness ==
    /\ receipt.op = "stake" /\ receipt.status = "ok"
    /\ receipt.moved = MaxU
    /\ isInitialized(stakes[receipt.asset][receipt.user])
    /\ decrypt(stakes[receipt.asset][receipt.user]) < MaxU

\* ------------------------------------------------- properties of traces
\* Positions of the storage writes in a trace.
Writes(tr) == {i \in DOMAIN tr : tr[i].kind = "sstore"}

\* The handle written at position i was granted to who earlier in the trace.
GrantedBefore(tr, i, who) ==
    \E j \in 1..(i - 1) :
        tr[j].kind = "allow" /\ tr[j].id = tr[i].id /\ tr[j].who = who

\* The principals granted the handle id in a trace.
Grantees(tr, id) ==
    {tr[j].who : j \in {k \in DOMAIN tr : tr[k].kind = "allow" /\ tr[k].id = id}}

\* Every write of a trace is preceded by the grants of its slot: the vault
\* and the owning account for a stake, the vault for a total.
WritesGranted(tr) ==
    \A i \in Writes(tr) :
        /\ GrantedBefore(tr, i, Vault)
        /\ tr[i].what = "stakes" => GrantedBefore(tr, i, tr[i].who)

\* Every slot whose content differs between s and t has a write in the
\* trace of t.
ChangesTraced(s, t) ==
    /\ \A c \in Asset, a \in Accounts :
           t.stakes[c][a] # s.stakes[c][a] =>
               \E i \in Writes(t.receipt.trace) :
                   /\ t.receipt.trace[i].what = "stakes"
                   /\ t.receipt.trace[i].asset = c
                   /\ t.receipt.trace[i].who = a
    /\ \A c \in Asset :
           t.totals[c] # s.totals[c] =>
               \E i \in Writes(t.receipt.trace) :
                   /\ t.receipt.trace[i].what = "totals"
                   /\ t.receipt.trace[i].asset = c

\* C11: every ciphertext written into a stake position has been granted,
\* when it is written, to the vault and to the owning account, and every
\* ciphertext written into a total has been granted to the vault; stake and
\* unstake change no slot without such a write.
C11_GrantsAtEveryWrite ==
    receipt = NoReceipt =>
        \A user \in Accounts, asset \in Asset, req \in Amounts,
           proofOk \in BOOLEAN, ret \in Answers :
            LET t == stake(cur, user, asset, TRUE, req, proofOk, ret)
                u == unstake(cur, user, asset, req, proofOk, ret)
            IN /\ WritesGranted(t.receipt.trace)
               /\ WritesGranted(u.receipt.trace)
               /\ ChangesTraced(cur, t)
               /\ ChangesTraced(cur, u)
               /\ t.receipt.status = "ok" => Cardinality(Writes(t.receipt.trace)) = 2
               /\ u.receipt.status = "ok" => Cardinality(Writes(u.receipt.trace)) = 2

\* C11 witness: a completed unstake has written a stake position and a
\* total, each after its grants.
C11_Witness ==
    /\ receipt.op = "unstake" /\ receipt.status = "ok"
    /\ \E i, j \in Writes(receipt.trace) :
           /\ receipt.trace[i].what = "stakes"
           /\ receipt.trace[i].who = receipt.user
           /\ GrantedBefore(receipt.trace, i, receipt.user)
           /\ receipt.trace[j].what = "totals"
           /\ GrantedBefore(receipt.trace, j, Vault)

\* C12 (the part on totals after a deposit): the ciphertext a completed
\* stake stores as the total of a class has been granted to no principal
\* but the vault.
C12_OnlyVaultHoldsTotal ==
    receipt.op = "stake" =>
        \A i \in Writes(receipt.trace) :
            receipt.trace[i].what = "totals" =>
                Grantees(receipt.trace, receipt.trace[i].id) \subseteq {Vault}

\* The handle id is the result of an FHE operation of the vault or of the
\* safe arithmetic: not the zero handle, not the caller's input, not a
\* handle returned by the token, not a handle read from storage.
Computed(id) == id \notin {"0x0", "input", "transferred", "sent", "stake", "total"}

\* C13 as stated: a position that was never written still reads as the zero
\* handle after its account calls unstake on it, and every ciphertext stake
\* or unstake writes into a position was computed by the safe arithmetic.
C13_ZeroHandleOrComputed ==
    receipt = NoReceipt =>
        \A user \in Accounts, asset \in Asset, req \in Amounts, ret \in Amounts :
            LET t == stake(cur, user, asset, TRUE, req, TRUE, ret)
                u == unstake(cur, user, asset, req, TRUE, ret)
            IN /\ stakes[asset][user] = ZeroHandle =>
                      u.stakes[asset][user] = ZeroHandle
               /\ \A i \in Writes(t.receipt.trace) :
                      t.receipt.trace[i].what = "stakes" =>
                          Computed(t.receipt.trace[i].id)
               /\ \A i \in Writes(u.receipt.trace) :
                      u.receipt.trace[i].what = "stakes" =>
                          Computed(u.receipt.trace[i].id)

\* C13 amended: a position that was never written reads as the zero handle
\* until its account calls stake or unstake on it; an unstake writes an
\* encrypted zero there, and the first stake writes the ciphertext the token
\* returned, as it is.  A position already written receives a ciphertext
\* computed by the safe arithmetic.  No position ever receives the
\* ciphertext supplied by the caller.
C13_ZeroHandleUntilFirstCall ==
    receipt = NoReceipt =>
        \A user \in Accounts, asset \in Asset, req \in Amounts, ret \in Amounts :
            LET t == stake(cur, user, asset, TRUE, req, TRUE, ret)
                u == unstake(cur, user, asset, req, TRUE, ret)
                first == stakes[asset][user] = ZeroHandle
            IN /\ first => /\ u.stakes[asset][user] = Enc(0)
                           /\ t.stakes[asset][user] = Enc(ret)
               /\ \A i \in Writes(t.receipt.trace) :
                      t.receipt.trace[i].what = "stakes" =>
                          IF first
                          THEN t.receipt.trace[i].id = "transferred"
                          ELSE Computed(t.receipt.trace[i].id)
               /\ \A i \in Writes(u.receipt.trace) :
                      u.receipt.trace[i].what = "stakes" =>
                          /\ Computed(u.receipt.trace[i].id)
                          /\ first => u.receipt.trace[i].id = "asEuint64"
               /\ \A a \in Accounts, c \in Asset :
                      (a # user \/ c # asset) =>
                          /\ t.stakes[c][a] = stakes[c][a]
                          /\ u.stakes[c][a] = stakes[c][a]

\* C13 witness: an account that never deposited has called unstake, and its
\* position holds an encrypted zero.
C13_Witness ==
    /\ receipt.op = "unstake" /\ receipt.status = "ok"
    /\ stakes[receipt.asset][receipt.user] = Enc(0)
    /\ \E i \in Writes(receipt.trace) :
           /\ receipt.trace[i].what = "stakes"
           /\ receipt.trace[i].id = "asEuint64"

\* C14: unstake performs no operator-approval check: whatever the stake and
\* the request, the outcome of unstake (completion, amount released, updated
\* stake and total, trace) is the same whether the token would report the
\* vault as the caller's operator or not, and unstake never asks the token.
C14_NoOperatorCheckOnUnstake ==
    receipt = NoReceipt =>
        \A user \in Accounts, asset \in Asset, req \in Amounts,
           proofOk \in BOOLEAN, ret \in Answers :
            LET t == unstakeWithApproval(cur, user, asset, TRUE, req, proofOk, ret)
                u == unstakeWithApproval(cur, user, asset, FALSE, req, proofOk, ret)
            IN /\ t = u
               /\ u.receipt.status # "OperatorMissing"
               /\ \A i \in DOMAIN u.receipt.trace :
                      u.receipt.trace[i].what # "isOperator"

\* C14 witness: an unstake released a positive amount in a transaction that
\* did not ask the token for the operator approval.
C14_Witness ==
    /\ receipt.op = "unstake" /\ receipt.status = "ok"
    /\ receipt.handed > 0
    /\ receipt.trace # <<>>
    /\ \A i \in DOMAIN receipt.trace : receipt.trace[i].what # "isOperator"

\* C15: the construction of the vault aborts with the invalid-token error
\* when either address is address(0) and leaves no vault; it succeeds with
\* the two token references set to the given addresses exactly when both are
\* non-zero; once the vault is constructed, stake and unstake leave the two
\* references as they are.
C15_Constructor ==
    receipt = NoReceipt =>
        /\ ~Deployed(cur) =>
               \A methTokenAddress \in Addresses, musdtTokenAddress \in Addresses :
                   LET t == constructor(cur, methTokenAddress, musdtTokenAddress)
                   IN IF methTokenAddress = ZeroAddress
                         \/ musdtTokenAddress = ZeroAddress
                      THEN /\ t.receipt.status = "InvalidToken"
                           /\ t.tokens = tokens
                           /\ ~Deployed(t)
                      ELSE /\ t.receipt.status = "ok"
                           /\ _getToken(t, "METH") = methTokenAddress
                           /\ _getToken(t, "MUSDT") = musdtTokenAddress
                           /\ Deployed(t)
        /\ Deployed(cur) =>
               \A user \in Accounts, asset \in Asset, approved \in BOOLEAN,
                  req \in Amounts, proofOk \in BOOLEAN, ret \in Answers :
                   /\ stake(cur, user, asset, approved, req, proofOk, ret).tokens
                          = tokens
                   /\ unstake(cur, user, asset, req, proofOk, ret).tokens = tokens

\* C15 witness: a construction was aborted with the invalid-token error and
\* there is no vault.
C15_Witness ==
    /\ receipt.op = "constructor" /\ receipt.status = "InvalidToken"
    /\ ~Deployed(cur)

\* What of a transaction can be seen without a decrypt grant: whether it
\* completed, and its trace (token calls, grants, slots written, events,
\* with the handles but not their plaintexts).
Observable(t) == [status |-> t.receipt.status, trace |-> t.receipt.trace]

\* The state that differs from s only in the plaintext of one stake.
WithStake(s, user, asset, v) ==
    [s EXCEPT !.stakes[asset][user] = IF @.init THEN Enc(v) ELSE @]

\* C16: two runs of unstake that differ only in the plaintexts of the stake
\* and of the request, one with a request the stake does not cover and the
\* other with a request of zero, hand the token the same plaintext (zero),
\* and for the same answer of the token they have the same observable
\* outcome: completion, token calls, slots written and events.
C16_RefusalLooksLikeZeroRequest ==
    receipt = NoReceipt =>
        \A user \in Accounts, asset \in Asset, req \in Amounts, v \in Amounts,
           ret \in Answers :
            req > decrypt(getEncryptedStake(cur, user, asset)) =>
                LET t == unstake(cur, user, asset, req, TRUE, ret)
                    u == unstake(WithStake(cur, user, asset, v), user, asset,
                                 0, TRUE, ret)
                IN /\ Observable(t) = Observable(u)
                   /\ t.receipt.handed = u.receipt.handed

\* C16 witness: a request the stake did not cover completed with two slots
\* written and one event, as a request of zero does.
C16_Witness ==
    /\ receipt.op = "unstake" /\ receipt.status = "ok"
    /\ receipt.req > decrypt(stakes[receipt.asset][receipt.user])
    /\ receipt.handed = 0
    /\ Cardinality(Writes(receipt.trace)) = 2
    /\ \E i \in DOMAIN receipt.trace : receipt.trace[i].kind = "emit"

\* The slot of mapping `what` of an asset is written in a trace.
Written(tr, what, asset) ==
    \E i \in Writes(tr) : tr[i].what = what /\ tr[i].asset = asset

\* C17: a stake or an unstake that fails (operator check, proof validation,
\* or the token's transfer reverting) leaves every stake position and every
\* total as before the call and keeps nothing of what it did; one that
\* completes has written both the position and the total; it fails exactly
\* when one of these steps fails.
C17_AllOrNothing ==
    receipt = NoReceipt =>
        \A user \in Accounts, asset \in Asset, req \in Amounts,
           proofOk \in BOOLEAN, ret \in Answers :
            LET AllOrNothing(x) ==
                    IF x.receipt.status = "ok"
                    THEN /\ Written(x.receipt.trace, "stakes", asset)
                         /\ Written(x.receipt.trace, "totals", asset)
                    ELSE /\ x.stakes = stakes
                         /\ x.totals = totals
                         /\ x.receipt.trace = <<>>
                u == unstake(cur, user, asset, req, proofOk, ret)
            IN /\ AllOrNothing(u)
               /\ u.receipt.status = "ok" <=> (proofOk /\ ret # Revert)
               /\ \A approved \in BOOLEAN :
                      LET t == stake(cur, user, asset, approved, req, proofOk, ret)
                      IN /\ AllOrNothing(t)
                         /\ t.receipt.status = "ok"
                                <=> (approved /\ proofOk /\ ret # Revert)

\* C17 witness: the token reverted the transfer of a positive amount out of
\* a position that covers it.
C17_Witness ==
    /\ receipt.op = "unstake" /\ receipt.status = "TokenReverted"
    /\ receipt.handed > 0
    /\ decrypt(stakes[receipt.asset][receipt.user]) >= receipt.handed

\* Positions of the events in a trace.
Emits(tr) == {i \in DOMAIN tr : tr[i].kind = "emit"}

\* C18: a completed stake emits exactly one event, Staked, carrying the
\* caller, the class and the handle the token returned as moved; a
\* completed unstake emits exactly one event, Unstaked, carrying the caller,
\* the class and the handle the token returned as sent; the event comes
\* after the storage writes; a call that aborts emits nothing.
C18_OneEventAfterWrites ==
    receipt = NoReceipt =>
        \A user \in Accounts, asset \in Asset, approved \in BOOLEAN,
           req \in Amounts, proofOk \in BOOLEAN, ret \in Answers :
            LET t == stake(cur, user, asset, approved, req, proofOk, ret)
                u == unstake(cur, user, asset, req, proofOk, ret)
                OneEvent(x, what, id) ==
                    LET tr == x.receipt.trace
                    IN IF x.receipt.status = "ok"
                       THEN /\ Cardinality(Emits(tr)) = 1
                            /\ \A i \in Emits(tr) :
                                   /\ tr[i].what = what
                                   /\ tr[i].who = user
                                   /\ tr[i].asset = asset
                                   /\ tr[i].id = id
                                   /\ \A j \in Writes(tr) : j < i
                            /\ Cardinality(Writes(tr)) = 2
                            /\ x.receipt.moved = ret
                       ELSE Emits(tr) = {}
            IN /\ OneEvent(t, "Staked", "transferred")
               /\ OneEvent(u, "Unstaked", "sent")

\* C18 witness: a stake completed for which the token moved less than the
\* request, and the last entry of its trace is the Staked event.
C18_Witness ==
    /\ receipt.op = "stake" /\ receipt.status = "ok"
    /\ receipt.moved < receipt.req
    /\ receipt.trace # <<>>
    /\ receipt.trace[Len(receipt.trace)].kind = "emit"
    /\ receipt.trace[Len(receipt.trace)].what = "Staked"

\* C19: a stake or an unstake by an account on a class leaves as they were
\* every stake position of the other class, the total of the other class and
\* the positions of the other accounts in the class; getEncryptedStake and
\* getTotalStaked return what the slots hold.
C19_Frame ==
    receipt = NoReceipt =>
        \A user \in Accounts, asset \in Asset, approved \in BOOLEAN,
           req \in Amounts, proofOk \in BOOLEAN, ret \in Answers :
            LET t == stake(cur, user, asset, approved, req, proofOk, ret)
                u == unstake(cur, user, asset, req, proofOk, ret)
                Frame(x) ==
                    /\ \A c \in Asset, a \in Accounts :
                           (c # asset \/ a # user) =>
                               getEncryptedStake(x, a, c)
                                   = getEncryptedStake(cur, a, c)
                    /\ \A c \in Asset :
                           c # asset => getTotalStaked(x, c) = getTotalStaked(cur, c)
                    /\ Stored(getEncryptedStake(x, user, asset))
                           = x.stakes[asset][user]
                    /\ Stored(getTotalStaked(x, asset)) = x.totals[asset]
            IN Frame(t) /\ Frame(u)

\* C19 witness: an unstake has released a positive amount of a class while
\* the other account holds a stake of that class and the other class has
\* deposits.
C19_Witness ==
    /\ receipt.op = "unstake" /\ receipt.status = "ok"
    /\ receipt.handed > 0
    /\ \E a \in Accounts \ {receipt.user} :
           decrypt(stakes[receipt.asset][a]) > 0
    /\ \E c \in Asset \ {receipt.asset} : decrypt(totals[c]) > 0

\* C20: when the token's transfer lets the recipient call unstake again for
\* the same account and class before it returns, the stake finally persisted
\* is the stake at the time of the transfer minus the amount the outer call
\* released, and the amount the account receives in the transaction is at
\* most the stake it held, so that what is released to an account never
\* exceeds what was credited to it.
C20_ReleasedWithinStakeUnderReentry ==
    (receipt = NoReceipt /\ tokenKind = "hooked") =>
        \A user \in Accounts, asset \in Asset, req \in Amounts, req2 \in Amounts :
            \A ret \in TransferResults(cur, asset, Handed(cur, user, asset, req))
                        \ {Revert} :
                LET s1 == confidentialTransfer(cur, asset, user, ret)
                IN \A ret2 \in TransferResults(s1, asset,
                                                Handed(s1, user, asset, req2))
                                \ {Revert} :
                       LET t == unstakeReentered(cur, user, asset, req, ret,
                                                 req2, ret2)
                           before == decrypt(getEncryptedStake(cur, user, asset))
                           released == t.wallet[asset][user] - wallet[asset][user]
                       IN /\ decrypt(getEncryptedStake(t, user, asset))
                                 = before - Handed(cur, user, asset, req)
                          /\ released <= before

====
